---- MODULE Spec2Model ----
(***************************************************************************)
(* Model of the CompilerDemo front end:                                    *)
(*   SimpleLexer   (src/src/Demo01.tsx)      DFA tokenizer                 *)
(*   SimpleTokenReader (src/src/Demo01.tsx)  token cursor                  *)
(*   SimpleParser  (src/unnamed/part_000)    recursive-descent parser      *)
(*   SimpleScript  (src/unnamed/part_000)    tree-walking evaluator        *)
(* Text is a sequence of one-character strings.                            *)
(***************************************************************************)
EXTENDS Integers, Sequences, FiniteSets, TLC

VARIABLES
  code,       \* the source text handed to tokenize / parse
  lexer,      \* SimpleLexer: tokenText, token (type), tokens, and tokenize's state, i
  tokens,     \* SimpleTokenReader.tokens
  pos,        \* SimpleTokenReader.pos
  pc,         \* where the caller stands
  node,       \* prog: children of the Programm node built so far
  child,      \* the last rule call: rule, pos at entry, node returned, error thrown
  tree,       \* the AST parse returned
  error,      \* message of the Error that ended the call
  variables,  \* SimpleScript.variables
  result,     \* what evaluate returned
  positions   \* the values getPosition has returned to the caller

vars == <<code, lexer, tokens, pos, pc, node, child, tree, error, variables, result, positions>>

(***************************************************************************)
(* Bounds of the model                                                     *)
(***************************************************************************)
MaxCodeLen == 4
MaxStmtTokens == 4
MaxExprTokens == 6
MaxRuleTokens == 4
MaxStatements == 2
MaxReaderTokens == 3

(***************************************************************************)
(* Characters                                                              *)
(***************************************************************************)
Letters ==
  {"a","b","c","d","e","f","g","h","i","j","k","l","m","n","o","p","q","r","s",
   "t","u","v","w","x","y","z",
   "A","B","C","D","E","F","G","H","I","J","K","L","M","N","O","P","Q","R","S",
   "T","U","V","W","X","Y","Z"}

DigitChars == {"0","1","2","3","4","5","6","7","8","9"}

isAlpha(ch) == ch \in Letters

isDigit(ch) == ch \in DigitChars

isBlank(ch) == ch = " " \/ ch = "\t" \/ ch = "\n"

(***************************************************************************)
(* SimpleLexer                                                             *)
(***************************************************************************)
SimpleToken(type, text) == [type |-> type, text |-> text]

\* The fields tokenize resets on entry, with its local state and i.
NewLexer ==
  [tokenText |-> <<>>, token |-> "Identifier", tokens |-> <<>>,
   state |-> "Initial", i |-> 0]

\* initToken's first half: the token in progress is stored and a new one begun.
closeToken(lx) ==
  IF Len(lx.tokenText) > 0
  THEN [lx EXCEPT !.tokens = Append(@, SimpleToken(lx.token, lx.tokenText)),
                  !.tokenText = <<>>,
                  !.token = "Identifier"]
  ELSE lx

startToken_strict(lx, ch) ==
  LET begin(st, ty) ==
        [lx EXCEPT !.state = st, !.token = ty, !.tokenText = Append(@, ch)]
  IN  IF isAlpha(ch)
      THEN IF ch = "i" THEN begin("Id_int1", "Identifier")
                       ELSE begin("Id", "Identifier")
      ELSE IF isDigit(ch) THEN begin("IntLiteral", "IntLiteral")
      ELSE IF ch = ">" THEN begin("GT", "GT")
      ELSE IF ch = "+" THEN begin("Plus", "Plus")
      ELSE IF ch = "-" THEN begin("Minus", "Minus")
      ELSE IF ch = "*" THEN begin("Star", "Star")
      ELSE IF ch = "/" THEN begin("Slash", "Slash")
      ELSE IF ch = ";" THEN begin("SemiColon", "SemiColon")
      ELSE IF ch = "(" THEN begin("LeftParen", "LeftParen")
      ELSE IF ch = ")" THEN begin("RightParen", "RightParen")
      ELSE IF ch = "=" THEN begin("Assignment", "Assignment")
      ELSE IF isBlank(ch) THEN [lx EXCEPT !.state = "Initial"]
      ELSE [lx EXCEPT !.state = "Error"]

\* initToken's second half: the state, and the token begun, chosen by ch.
startToken(lx, ch) ==
  LET begin(st, ty) ==
        [lx EXCEPT !.state = st, !.token = ty, !.tokenText = Append(@, ch)]
  IN  IF isAlpha(ch)
      THEN IF ch = "i" THEN begin("Id_int1", "Identifier")
                       ELSE begin("Id", "Identifier")
      ELSE IF isDigit(ch) THEN begin("IntLiteral", "IntLiteral")
      ELSE IF ch = ">" THEN begin("GT", "GT")
      ELSE IF ch = "+" THEN begin("Plus", "Plus")
      ELSE IF ch = "-" THEN begin("Minus", "Minus")
      ELSE IF ch = "*" THEN begin("Star", "Star")
      ELSE IF ch = "/" THEN begin("Slash", "Slash")
      ELSE IF ch = ";" THEN begin("SemiColon", "SemiColon")
      ELSE IF ch = "(" THEN begin("LeftParen", "LeftParen")
      ELSE IF ch = ")" THEN begin("RightParen", "RightParen")
      ELSE IF ch = "=" THEN begin("Assignment", "Assignment")
      ELSE [lx EXCEPT !.state = "Initial"]

initToken(lx, ch) == startToken(closeToken(lx), ch)

keep(lx, ch) == [lx EXCEPT !.tokenText = Append(@, ch)]

caseId(lx, ch) ==
  IF isAlpha(ch) \/ isDigit(ch) THEN keep(lx, ch) ELSE initToken(lx, ch)

caseGT(lx, ch) ==
  IF ch = "="
  THEN [lx EXCEPT !.token = "GE", !.state = "GE", !.tokenText = Append(@, ch)]
  ELSE initToken(lx, ch)

caseIntLiteral(lx, ch) ==
  IF isDigit(ch) THEN keep(lx, ch) ELSE initToken(lx, ch)

caseId_int1(lx, ch) ==
  IF ch = "n"
  THEN [lx EXCEPT !.state = "Id_int2", !.tokenText = Append(@, ch)]
  ELSE IF isDigit(ch) \/ isAlpha(ch)
  THEN [lx EXCEPT !.state = "Id", !.tokenText = Append(@, ch)]
  ELSE initToken(lx, ch)

caseId_int2_eager(lx, ch) ==
  IF ch = "t"
  THEN [lx EXCEPT !.state = "Id_int3", !.token = "Int", !.tokenText = Append(@, ch)]
  ELSE IF isDigit(ch) \/ isAlpha(ch)
  THEN [lx EXCEPT !.state = "Id", !.tokenText = Append(@, ch)]
  ELSE initToken(lx, ch)

caseId_int2(lx, ch) ==
  IF ch = "t"
  THEN [lx EXCEPT !.state = "Id_int3", !.tokenText = Append(@, ch)]
  ELSE IF isDigit(ch) \/ isAlpha(ch)
  THEN [lx EXCEPT !.state = "Id", !.tokenText = Append(@, ch)]
  ELSE initToken(lx, ch)

caseId_int3_delimiter(lx, ch) ==
  IF ~(isAlpha(ch) \/ isDigit(ch))
  THEN initToken([lx EXCEPT !.token = "Int"], ch)
  ELSE [lx EXCEPT !.state = "Id", !.tokenText = Append(@, ch)]

caseId_int3(lx, ch) ==
  IF isBlank(ch)
  THEN initToken([lx EXCEPT !.token = "Int"], ch)
  ELSE [lx EXCEPT !.state = "Id", !.tokenText = Append(@, ch)]

OneShotStates ==
  {"GE", "Assignment", "Plus", "Minus", "Star", "Slash", "SemiColon",
   "LeftParen", "RightParen"}

\* One iteration of tokenize's for loop: the switch on state, then i++.
tokenizeChar(lx, ch) ==
  LET next ==
        CASE lx.state = "Initial" -> initToken(lx, ch)
          [] lx.state = "Id" -> caseId(lx, ch)
          [] lx.state = "GT" -> caseGT(lx, ch)
          [] lx.state \in OneShotStates -> initToken(lx, ch)
          [] lx.state = "IntLiteral" -> caseIntLiteral(lx, ch)
          [] lx.state = "Id_int1" -> caseId_int1(lx, ch)
          [] lx.state = "Id_int2" -> caseId_int2(lx, ch)
          [] lx.state = "Id_int3" -> caseId_int3(lx, ch)
          [] OTHER -> lx
  IN  [next EXCEPT !.i = lx.i + 1]

\* After the loop: a lexeme still accumulating is closed by initToken on the
\* last character, which the local state does not take.
tokenizeEnd(lx, src) ==
  IF Len(lx.tokenText) > 0
  THEN [initToken(lx, src[Len(src)]) EXCEPT !.state = lx.state]
  ELSE lx

RECURSIVE tokenizeLoop(_, _)
tokenizeLoop(lx, src) ==
  IF lx.i < Len(src) THEN tokenizeLoop(tokenizeChar(lx, src[lx.i + 1]), src)
  ELSE lx

\* tokenize(code): the token list the returned SimpleTokenReader holds.
tokenize(src) == tokenizeEnd(tokenizeLoop(NewLexer, src), src).tokens

(***************************************************************************)
(* SimpleTokenReader                                                       *)
(***************************************************************************)
NoToken == [type |-> "null", text |-> <<>>]

read(toks, p) ==
  IF p < Len(toks) THEN [token |-> toks[p + 1], pos |-> p + 1]
  ELSE [token |-> NoToken, pos |-> p]

peek(toks, p) == IF p < Len(toks) THEN toks[p + 1] ELSE NoToken

unread(toks, p) == IF p > 0 THEN p - 1 ELSE p

getPosition(toks, p) == p

setPosition_unchecked(toks, p, position) == position

setPosition_nonzero(toks, p, position) ==
  IF position > 0 /\ position < Len(toks) THEN position ELSE p

setPosition(toks, p, position) ==
  IF position >= 0 /\ position < Len(toks) THEN position ELSE p

(***************************************************************************)
(* SimpleASTNode and the outcome of a parsing rule                         *)
(***************************************************************************)
NoNode == [type |-> "null"]

SimpleASTNode(nodeType, text, children) ==
  [type |-> nodeType, text |-> text, children |-> children]

NoError == ""

\* A rule returned nd (NoNode: no match) with the cursor at p.
Return(nd, p) == [node |-> nd, pos |-> p, err |-> NoError]

\* A rule threw Error(msg) with the cursor at p.
Throw(msg, p) == [node |-> NoNode, pos |-> p, err |-> msg]

(***************************************************************************)
(* SimpleParser: additive, multiplicative, primary                         *)
(***************************************************************************)
RECURSIVE additive(_, _), additiveLoop(_, _, _), multiplicative(_, _),
          multiplicativeLoop(_, _, _), primary(_, _), additiveLoop_flat(_, _, _)

primaryNoMatch_placeholder(p) == Return(SimpleASTNode("Primary", <<>>, <<>>), p)

\* primary found no node: if (node === null) throw.
primaryNoMatch(p) == Throw("primary expression expected", p)

primary(toks, p) ==
  LET token == peek(toks, p) IN
  IF token = NoToken THEN primaryNoMatch(p)
  ELSE IF token.type = "IntLiteral"
  THEN Return(SimpleASTNode("IntLiteral", token.text, <<>>), read(toks, p).pos)
  ELSE IF token.type = "Identifier"
  THEN Return(SimpleASTNode("Identifier", token.text, <<>>), read(toks, p).pos)
  ELSE IF token.type = "LeftParen"
  THEN LET r == additive(toks, read(toks, p).pos) IN
       IF r.err # NoError THEN r
       ELSE IF r.node # NoNode
       THEN IF peek(toks, r.pos).type = "RightParen"
            THEN Return(r.node, read(toks, r.pos).pos)
            ELSE Throw("expecting right parenthesis", r.pos)
       ELSE Throw("expecting an additive expression inside parenthesis", r.pos)
  ELSE primaryNoMatch(p)

multiplicativeChild2_additive(toks, p) == additive(toks, p)

\* The right operand of * or /: const child2 = this.multiplicative(tokens).
multiplicativeChild2(toks, p) == multiplicative(toks, p)

multiplicativeLoop(toks, child1, p) ==
  LET token == peek(toks, p) IN
  IF token.type = "Star" \/ token.type = "Slash"
  THEN LET r2 == multiplicativeChild2(toks, read(toks, p).pos) IN
       IF r2.err # NoError THEN r2
       ELSE IF r2.node # NoNode
       THEN multiplicativeLoop(
              toks, SimpleASTNode("Multiplicative", token.text, <<child1, r2.node>>),
              r2.pos)
       ELSE Throw("invalid multiplicative expression, expecting the right part.",
                  r2.pos)
  ELSE Return(child1, p)

multiplicative(toks, p) ==
  LET r1 == primary(toks, p) IN
  IF r1.err # NoError THEN r1 ELSE multiplicativeLoop(toks, r1.node, r1.pos)

additiveChild2_additive(toks, p) == additive(toks, p)

\* The right operand of + or -: const child2 = this.multiplicative(tokens).
additiveChild2(toks, p) == multiplicative(toks, p)

additiveLoop_flat(toks, child1, p) ==
  LET token == peek(toks, p) IN
  IF token.type = "Plus" \/ token.type = "Minus"
  THEN LET r2 == additiveChild2(toks, read(toks, p).pos) IN
       IF r2.err # NoError THEN r2
       ELSE IF r2.node # NoNode
       THEN additiveLoop_flat(
              toks,
              IF child1.type = "Additive"
              THEN [child1 EXCEPT !.children = Append(@, r2.node)]
              ELSE SimpleASTNode("Additive", token.text, <<child1, r2.node>>),
              r2.pos)
       ELSE Throw("invalid additive expression, expecting the right part.", r2.pos)
  ELSE Return(child1, p)

additiveLoop(toks, child1, p) ==
  LET token == peek(toks, p) IN
  IF token.type = "Plus" \/ token.type = "Minus"
  THEN LET r2 == additiveChild2(toks, read(toks, p).pos) IN
       IF r2.err # NoError THEN r2
       ELSE IF r2.node # NoNode
       THEN additiveLoop(
              toks, SimpleASTNode("Additive", token.text, <<child1, r2.node>>),
              r2.pos)
       ELSE Throw("invalid additive expression, expecting the right part.", r2.pos)
  ELSE Return(child1, p)

additive(toks, p) ==
  LET r1 == multiplicative(toks, p) IN
  IF r1.err # NoError THEN r1
  ELSE IF r1.node # NoNode THEN additiveLoop(toks, r1.node, r1.pos)
  ELSE r1

(***************************************************************************)
(* SimpleParser: the three statement rules                                 *)
(***************************************************************************)
intDeclare_lenient(toks, p) ==
  IF peek(toks, p).type = "Int"
  THEN LET p1 == read(toks, p).pos IN
       IF peek(toks, p1).type = "Identifier"
       THEN LET name == read(toks, p1).token.text
                p2 == read(toks, p1).pos
                init == IF peek(toks, p2).type = "Assignment"
                        THEN additive(toks, read(toks, p2).pos)
                        ELSE Return(NoNode, p2)
                decl == SimpleASTNode("IntDeclaration", name,
                          IF init.node = NoNode THEN <<>> ELSE <<init.node>>)
            IN  IF init.err # NoError THEN init
                ELSE IF peek(toks, p2).type = "Assignment" /\ init.node = NoNode
                THEN Throw("invalide variable initialization, expecting an expression",
                           init.pos)
                ELSE IF peek(toks, init.pos).type = "SemiColon"
                THEN Return(decl, read(toks, init.pos).pos)
                ELSE Return(decl, init.pos)
       ELSE Throw("variable name expected", p1)
  ELSE Return(NoNode, p)

intDeclare(toks, p) ==
  IF peek(toks, p).type = "Int"
  THEN LET p1 == read(toks, p).pos IN
       IF peek(toks, p1).type = "Identifier"
       THEN LET name == read(toks, p1).token.text
                p2 == read(toks, p1).pos
                init == IF peek(toks, p2).type = "Assignment"
                        THEN additive(toks, read(toks, p2).pos)
                        ELSE Return(NoNode, p2)
                decl == SimpleASTNode("IntDeclaration", name,
                          IF init.node = NoNode THEN <<>> ELSE <<init.node>>)
            IN  IF init.err # NoError THEN init
                ELSE IF peek(toks, p2).type = "Assignment" /\ init.node = NoNode
                THEN Throw("invalide variable initialization, expecting an expression",
                           init.pos)
                ELSE IF peek(toks, init.pos).type = "SemiColon"
                THEN Return(decl, read(toks, init.pos).pos)
                ELSE Throw("invalid statement, expecting semicolon", init.pos)
       ELSE Throw("variable name expected", p1)
  ELSE Return(NoNode, p)

expressionStatement_rewindAlways(toks, p) ==
  LET position == getPosition(toks, p)
      r == additive(toks, p)
  IN  IF r.err # NoError THEN r
      ELSE IF r.node # NoNode
      THEN IF peek(toks, r.pos).type = "SemiColon"
           THEN Return(r.node, setPosition(toks, read(toks, r.pos).pos, position))
           ELSE Return(NoNode, setPosition(toks, r.pos, position))
      ELSE r

expressionStatement_noRewind(toks, p) ==
  LET r == additive(toks, p) IN
  IF r.err # NoError THEN r
  ELSE IF r.node # NoNode
  THEN IF peek(toks, r.pos).type = "SemiColon"
       THEN Return(r.node, read(toks, r.pos).pos)
       ELSE Return(NoNode, r.pos)
  ELSE r

expressionStatement_strict(toks, p) ==
  LET r == additive(toks, p) IN
  IF r.err # NoError THEN r
  ELSE IF r.node # NoNode
  THEN IF peek(toks, r.pos).type = "SemiColon"
       THEN Return(r.node, read(toks, r.pos).pos)
       ELSE Throw("invalid statement, expecting semicolon", r.pos)
  ELSE r

expressionStatement(toks, p) ==
  LET position == getPosition(toks, p)
      r == additive(toks, p)
  IN  IF r.err # NoError THEN r
      ELSE IF r.node # NoNode
      THEN IF peek(toks, r.pos).type = "SemiColon"
           THEN Return(r.node, read(toks, r.pos).pos)
           ELSE Return(NoNode, setPosition(toks, r.pos, position))
      ELSE r

assignmentStatement_noUnread(toks, p) ==
  IF peek(toks, p).type = "Identifier"
  THEN LET name == read(toks, p).token.text
           p1 == read(toks, p).pos
       IN  IF peek(toks, p1).type = "Assignment"
           THEN LET r == additive(toks, read(toks, p1).pos) IN
                IF r.err # NoError THEN r
                ELSE IF r.node = NoNode
                THEN Throw("invalide assignment statement, expecting an expression",
                           r.pos)
                ELSE IF peek(toks, r.pos).type = "SemiColon"
                THEN Return(SimpleASTNode("AssignmentStmt", name, <<r.node>>),
                            read(toks, r.pos).pos)
                ELSE Throw("invalid statement, expecting semicolon", r.pos)
           ELSE Return(NoNode, p1)
  ELSE Return(NoNode, p)

assignmentStatement(toks, p) ==
  IF peek(toks, p).type = "Identifier"
  THEN LET name == read(toks, p).token.text
           p1 == read(toks, p).pos
       IN  IF peek(toks, p1).type = "Assignment"
           THEN LET r == additive(toks, read(toks, p1).pos) IN
                IF r.err # NoError THEN r
                ELSE IF r.node = NoNode
                THEN Throw("invalide assignment statement, expecting an expression",
                           r.pos)
                ELSE IF peek(toks, r.pos).type = "SemiColon"
                THEN Return(SimpleASTNode("AssignmentStmt", name, <<r.node>>),
                            read(toks, r.pos).pos)
                ELSE Throw("invalid statement, expecting semicolon", r.pos)
           ELSE Return(NoNode, unread(toks, p1))
  ELSE Return(NoNode, p)

(***************************************************************************)
(* Values of SimpleScript: number | null.  A number is an integer, the     *)
(* negative zero, an infinity or NaN, as the arithmetic of the host gives. *)
(***************************************************************************)
NullValue == [k |-> "null"]

Num(n) == [k |-> "int", v |-> n]

NegZero == [k |-> "negzero"]

Infinity(sign) == [k |-> "inf", sign |-> sign]

NaN == [k |-> "nan"]

\* null counts as 0 in arithmetic.
toNumber(x) == IF x = NullValue THEN Num(0) ELSE x

isFinite(x) == x.k = "int" \/ x.k = "negzero"

isZero(x) == x = Num(0) \/ x = NegZero

magnitude(x) == IF x.k = "int" THEN x.v ELSE 0

signOf(x) ==
  CASE x.k = "int" -> IF x.v < 0 THEN -1 ELSE 1
    [] x.k = "negzero" -> -1
    [] x.k = "inf" -> x.sign
    [] OTHER -> 1

zero(sign) == IF sign < 0 THEN NegZero ELSE Num(0)

negate(x) ==
  CASE x.k = "int" -> IF x.v = 0 THEN NegZero ELSE Num(-x.v)
    [] x.k = "negzero" -> Num(0)
    [] x.k = "inf" -> Infinity(-x.sign)
    [] OTHER -> x

plus(x, y) ==
  LET a == toNumber(x)
      b == toNumber(y)
  IN  IF a = NaN \/ b = NaN THEN NaN
      ELSE IF a.k = "inf" /\ b.k = "inf"
      THEN IF a.sign = b.sign THEN a ELSE NaN
      ELSE IF a.k = "inf" THEN a
      ELSE IF b.k = "inf" THEN b
      ELSE IF a = NegZero /\ b = NegZero THEN NegZero
      ELSE Num(magnitude(a) + magnitude(b))

minus(x, y) == plus(x, negate(toNumber(y)))

times(x, y) ==
  LET a == toNumber(x)
      b == toNumber(y)
  IN  IF a = NaN \/ b = NaN THEN NaN
      ELSE IF a.k = "inf" \/ b.k = "inf"
      THEN IF isZero(a) \/ isZero(b) THEN NaN ELSE Infinity(signOf(a) * signOf(b))
      ELSE IF isZero(a) \/ isZero(b) THEN zero(signOf(a) * signOf(b))
      ELSE Num(magnitude(a) * magnitude(b))

floorQuotient_truncate(a, b) ==
  LET abs(x) == IF x < 0 THEN 0 - x ELSE x
      q == abs(a) \div abs(b)
  IN  IF (a < 0) = (b < 0) THEN q ELSE 0 - q

\* floor of the exact quotient of two integers, b # 0
floorQuotient(a, b) == IF b > 0 THEN a \div b ELSE (-a) \div (-b)

\* Math.floor(x / y)
floorDivide(x, y) ==
  LET a == toNumber(x)
      b == toNumber(y)
  IN  IF a = NaN \/ b = NaN THEN NaN
      ELSE IF a.k = "inf"
      THEN IF b.k = "inf" THEN NaN ELSE Infinity(signOf(a) * signOf(b))
      ELSE IF b.k = "inf" THEN zero(signOf(a) * signOf(b))
      ELSE IF isZero(b)
      THEN IF isZero(a) THEN NaN ELSE Infinity(signOf(a) * signOf(b))
      ELSE IF isZero(a) THEN zero(signOf(a) * signOf(b))
      ELSE Num(floorQuotient(magnitude(a), magnitude(b)))

\* value || null: 0, -0, NaN and null are falsy
orNull(x) == IF isZero(x) \/ x = NaN \/ x = NullValue THEN NullValue ELSE x

DigitValue(ch) ==
  CASE ch = "0" -> 0 [] ch = "1" -> 1 [] ch = "2" -> 2 [] ch = "3" -> 3
    [] ch = "4" -> 4 [] ch = "5" -> 5 [] ch = "6" -> 6 [] ch = "7" -> 7
    [] ch = "8" -> 8 [] ch = "9" -> 9

RECURSIVE parseDigits(_, _)
parseDigits(text, acc) ==
  IF text = <<>> \/ ~isDigit(Head(text)) THEN acc
  ELSE parseDigits(Tail(text), 10 * acc + DigitValue(Head(text)))

\* parseInt(text, 10): the leading digits; NaN when there is none
parseInt(text) ==
  IF text = <<>> \/ ~isDigit(Head(text)) THEN NaN ELSE Num(parseDigits(text, 0))

(***************************************************************************)
(* SimpleScript.evaluate                                                   *)
(***************************************************************************)
NoVariables == [name \in {} |-> NullValue]

has(env, name) == name \in DOMAIN env

set_only(env, name, value) == [n \in {name} |-> value]

set(env, name, value) ==
  [n \in DOMAIN env \cup {name} |-> IF n = name THEN value ELSE env[n]]

Value(value, env) == [result |-> value, variables |-> env, err |-> NoError]

Raise(msg, env) == [result |-> NullValue, variables |-> env, err |-> msg]

\* The two messages of case Identifier / AssignmentStmt, without the name in them.
UnknownVariable == "unknown variable"

UnsetVariable == "variable has not been set any value"

RECURSIVE evaluate(_, _), evaluateChildren(_, _, _, _),
          evaluateChildren_freshEnv(_, _, _, _)

evaluateChildren_freshEnv(children, k, last, env) ==
  IF k > Len(children) THEN Value(last, env)
  ELSE LET r == evaluate(children[k], env) IN
       IF r.err # NoError THEN r
       ELSE evaluateChildren_freshEnv(children, k + 1, r.result, env)

\* case Programm: the for loop over the children from index k on
evaluateChildren(children, k, last, env) ==
  IF k > Len(children) THEN Value(last, env)
  ELSE LET r == evaluate(children[k], env) IN
       IF r.err # NoError THEN r
       ELSE evaluateChildren(children, k + 1, r.result, r.variables)

evaluateDeclaration_keepExisting(nd, env) ==
  IF Len(nd.children) > 0
  THEN LET r == evaluate(nd.children[1], env) IN
       IF r.err # NoError THEN r
       ELSE Value(r.result, set(r.variables, nd.text, r.result))
  ELSE IF has(env, nd.text) THEN Value(NullValue, env)
  ELSE Value(NullValue, set(env, nd.text, NullValue))

evaluateDeclaration_bindFirst(nd, env) ==
  IF Len(nd.children) > 0
  THEN LET r == evaluate(nd.children[1], set(env, nd.text, NullValue)) IN
       IF r.err # NoError THEN r
       ELSE Value(r.result, set(r.variables, nd.text, r.result))
  ELSE Value(NullValue, set(env, nd.text, NullValue))

\* case IntDeclaration, which case AssignmentStmt falls through to
evaluateDeclaration(nd, env) ==
  IF Len(nd.children) > 0
  THEN LET r == evaluate(nd.children[1], env) IN
       IF r.err # NoError THEN r
       ELSE Value(r.result, set(r.variables, nd.text, r.result))
  ELSE Value(NullValue, set(env, nd.text, NullValue))

evaluateBinary(nd, env) ==
  LET r1 == evaluate(nd.children[1], env) IN
  IF r1.err # NoError THEN r1
  ELSE LET r2 == evaluate(nd.children[2], r1.variables) IN
       IF r2.err # NoError THEN r2
       ELSE Value(
              IF nd.type = "Additive"
              THEN IF nd.text = <<"+">> THEN plus(r1.result, r2.result)
                                        ELSE minus(r1.result, r2.result)
              ELSE IF nd.text = <<"*">> THEN times(r1.result, r2.result)
                                        ELSE floorDivide(r1.result, r2.result),
              r2.variables)

evaluateIdentifier_lenient(nd, env) ==
  IF has(env, nd.text) THEN Value(orNull(env[nd.text]), env)
  ELSE Value(NullValue, env)

evaluateIdentifier(nd, env) ==
  IF has(env, nd.text)
  THEN LET value == orNull(env[nd.text]) IN
       IF value # NullValue THEN Value(value, env)
       ELSE Raise(UnsetVariable, env)
  ELSE Raise(UnknownVariable, env)

evaluateAssignment_checkAfter(nd, env) ==
  LET r == evaluateDeclaration(nd, env) IN
  IF r.err # NoError THEN r
  ELSE IF ~has(env, nd.text) THEN Raise(UnknownVariable, env)
  ELSE r

\* case AssignmentStmt: the variable must exist, then the declaration's code
evaluateAssignment(nd, env) ==
  IF ~has(env, nd.text) THEN Raise(UnknownVariable, env)
  ELSE evaluateDeclaration(nd, env)

evaluate(nd, env) ==
  CASE nd.type = "Programm" -> evaluateChildren(nd.children, 1, NullValue, env)
    [] nd.type = "Additive" -> evaluateBinary(nd, env)
    [] nd.type = "Multiplicative" -> evaluateBinary(nd, env)
    [] nd.type = "IntLiteral" -> Value(parseInt(nd.text), env)
    [] nd.type = "Identifier" -> evaluateIdentifier(nd, env)
    [] nd.type = "AssignmentStmt" -> evaluateAssignment(nd, env)
    [] nd.type = "IntDeclaration" -> evaluateDeclaration(nd, env)
    [] OTHER -> Value(NullValue, env)

(***************************************************************************)
(* Inputs                                                                  *)
(***************************************************************************)
StringsUpTo(alphabet, n) == UNION {[1..k -> alphabet] : k \in 0..n}

RECURSIVE Join(_)
\* The lexemes of a sequence, one blank after each.
Join(lexemes) ==
  IF lexemes = <<>> THEN <<>> ELSE Head(lexemes) \o <<" ">> \o Join(Tail(lexemes))

LexAlphabet == {"i", "n", "t", "1", " ", ";", ">", "="}

LexExamples ==
  { <<"i","n","t"," ","a","g","e"," ","="," ","3","0">>,
    <<"i","n","t","a"," ","a","g","e"," ","="," ","3","0",";">>,
    <<"i","n"," ","a","g","e"," ","="," ","3","0",";">>,
    <<"a","g","e"," ",">","="," ","3","0",";">>,
    <<"a","g","e"," ",">"," ","3","0",";">>,
    <<"i","n","t","\t","x">>,
    <<"i","n","t","\n","x">>,
    <<"i","n","t","(">>,
    <<"1","i","n","t"," ">>,
    <<"i","n","t","#">>,
    <<" ","#","\n","@","\t">>,
    <<"a","#","b"," ","1","2","a">>,
    <<"#","2","+","3","*","(","4","-","5",")","/","6">> }

LexInputs == StringsUpTo(LexAlphabet, MaxCodeLen) \cup LexExamples

StmtLexemes ==
  { <<"i","n","t">>, <<"a">>, <<"2">>, <<"+">>, <<"=">>, <<";">>, <<"(">>, <<")">> }

ExprLexemes == { <<"2">>, <<"+">>, <<"*">>, <<";">> }

AllLexemes ==
  StmtLexemes \cup ExprLexemes \cup { <<"-">>, <<"/">>, <<">">>, <<">","=">> }

ParseExamples ==
  { <<"2","+","3","+","4",";">>,
    <<"8","-","4","-","2",";">>,
    <<"8","/","4","/","2",";">>,
    <<"2","*","3","*","4",";">>,
    <<"1","+","2","*","3",";">>,
    <<"1"," ","+"," ","2"," ","*"," ","3">>,
    <<"2","*","3","+","4",";">>,
    <<"2","+">>,
    <<"2","+","3">>,
    <<"2","*","(","3","+","4",")",";">>,
    <<"i","n","t"," ","a","g","e"," ","="," ","1","+","2",";"," ","a","g","e","+","3",";">>,
    <<"i","n","t"," ","a",";"," ","a","+","1",";">>,
    <<"i","n","t"," ","a"," ","="," ","0",";"," ","a",";">>,
    <<"i","n","t"," ","a"," ","="," ","2",";"," ","a"," ","="," ","a","*","3",";">>,
    <<"a"," ","="," ","2",";">>,
    <<"i","n","t"," ","a"," ","="," ","(","2","+","3",";">>,
    <<"i","n","t"," ","a"," ","="," ",";">>,
    <<"a"," ","="," ",";">>,
    <<"i","n","t"," ","b",";"," ","a"," ","="," ","b","+","1",";">>,
    <<"i","n","t"," ","a"," ","="," ","2",";"," ","a",";">>,
    <<"2","/","0",";">>,
    <<"(","0","-","7",")","/","2",";">>,
    <<"7","/","2",";">>,
    <<"i","n","t"," ","a"," ","="," ","2",";"," ","i","n","t"," ","a",";"," ","a",";">>,
    <<"i","n","t"," ","a"," ","="," ","2",";"," ","i","n","t"," ","a"," ","="," ","3",";"," ","a",";">>,
    <<"7","/","(","0","-","2",")",";">>,
    <<"(","0","-","7",")","/","(","0","-","2",")",";">>,
    <<"0","/","(","0","-","2",")",";">> }

\* Statements, each one lexeme of a program
Statements ==
  { <<"i","n","t"," ","a",";">>,
    <<"i","n","t"," ","a","=","2","-","3",";">>,
    <<"i","n","t"," ","b","=","a","*","2",";">>,
    <<"a","=","b","+","1",";">>,
    <<"a","=","0",";">>,
    <<"a","-","b",";">>,
    <<"6","/","a","/","2",";">>,
    <<"(","a","+","1",")","*","b",";">>,
    <<"a","=","b","/","0",";">>,
    <<"a","+","b","-","1">> }

ParseInputs ==
  {Join(ls) : ls \in StringsUpTo(StmtLexemes, MaxStmtTokens)}
    \cup {Join(ls) : ls \in StringsUpTo(ExprLexemes, MaxExprTokens)}
    \cup {Join(ls) : ls \in StringsUpTo(AllLexemes, 2)}
    \cup {Join(ls) : ls \in StringsUpTo(Statements, MaxStatements)}
    \cup ParseExamples

RuleLexemes == { <<"i","n","t">>, <<"a">>, <<"2">>, <<"+">>, <<"=">>, <<";">> }

RuleInputs == {Join(ls) : ls \in StringsUpTo(RuleLexemes, MaxRuleTokens)}

ReaderLexemes == { <<"2">>, <<"+">> }

ReaderInputs == {Join(ls) : ls \in StringsUpTo(ReaderLexemes, MaxReaderTokens)}

(***************************************************************************)
(* State machine                                                           *)
(***************************************************************************)
\* What a rule call left behind: the rule, the cursor at entry and on return,
\* what it returned or threw.
Call(rule, entry, r) ==
  [rule |-> rule, entry |-> entry, exit |-> r.pos, node |-> r.node, err |-> r.err]

NoCall == [rule |-> "none", entry |-> 0, exit |-> 0, node |-> NoNode, err |-> NoError]

InitWith(inputs, start) ==
  /\ code \in inputs
  /\ lexer = NewLexer
  /\ tokens = <<>>
  /\ pos = 0
  /\ pc = start
  /\ node = <<>>
  /\ child = NoCall
  /\ tree = NoNode
  /\ error = NoError
  /\ variables = NoVariables
  /\ result = NullValue
  /\ positions = {}

---------------------------------------------------------------------------
\* SimpleLexer.tokenize, one character at a time

TokenizeChar ==
  /\ pc = "tokenize"
  /\ lexer.i < Len(code)
  /\ lexer' = tokenizeChar(lexer, code[lexer.i + 1])
  /\ UNCHANGED <<code, tokens, pos, pc, node, child, tree, error, variables, result, positions>>

TokenizeEnd ==
  /\ pc = "tokenize"
  /\ lexer.i >= Len(code)
  /\ lexer' = tokenizeEnd(lexer, code)
  /\ tokens' = lexer'.tokens
  /\ pos' = 0
  /\ pc' = "tokenized"
  /\ UNCHANGED <<code, node, child, tree, error, variables, result, positions>>

InitLexer == InitWith(LexInputs, "tokenize")

NextLexer == TokenizeChar \/ TokenizeEnd

SpecLexer == InitLexer /\ [][NextLexer]_vars

---------------------------------------------------------------------------
\* SimpleParser.parse and SimpleScript.evaluate

\* parse: lexer.tokenize(code), then prog begins with an empty Programm node
Parse ==
  /\ pc = "parse"
  /\ tokens' = tokenize(code)
  /\ pos' = 0
  /\ node' = <<>>
  /\ pc' = "prog"
  /\ UNCHANGED <<code, lexer, child, tree, error, variables, result, positions>>

\* The outcome of one rule inside prog's loop body: a thrown error ends
\* parse, a node is added to the Programm node, null passes to the next rule.
ProgRule(rule, r, nextRule) ==
  /\ child' = Call(rule, pos, r)
  /\ pos' = r.pos
  /\ IF r.err # NoError
     THEN /\ error' = r.err
          /\ pc' = "syntaxError"
          /\ UNCHANGED node
     ELSE IF r.node # NoNode
     THEN /\ node' = Append(node, r.node)
          /\ pc' = "prog"
          /\ UNCHANGED error
     ELSE IF nextRule # "none"
     THEN /\ pc' = nextRule
          /\ UNCHANGED <<node, error>>
     ELSE /\ error' = "unknown statement"
          /\ pc' = "syntaxError"
          /\ UNCHANGED node
  /\ UNCHANGED <<code, lexer, tokens, tree, variables, result, positions>>

ProgIntDeclare ==
  /\ pc = "prog"
  /\ peek(tokens, pos) # NoToken
  /\ ProgRule("intDeclare", intDeclare(tokens, pos), "expressionStatement")

ProgExpressionStatement ==
  /\ pc = "expressionStatement"
  /\ ProgRule("expressionStatement", expressionStatement(tokens, pos),
              "assignmentStatement")

ProgAssignmentStatement ==
  /\ pc = "assignmentStatement"
  /\ ProgRule("assignmentStatement", assignmentStatement(tokens, pos), "none")

ProgReturn ==
  /\ pc = "prog"
  /\ peek(tokens, pos) = NoToken
  /\ tree' = SimpleASTNode("Programm", <<"d","e","m","o">>, node)
  /\ pc' = "parsed"
  /\ UNCHANGED <<code, lexer, tokens, pos, node, child, error, variables, result, positions>>

\* script.evaluate(tree, '')
Evaluate ==
  /\ pc = "parsed"
  /\ LET r == evaluate(tree, variables) IN
       /\ variables' = r.variables
       /\ result' = r.result
       /\ error' = r.err
       /\ pc' = IF r.err # NoError THEN "evaluateError" ELSE "evaluated"
  /\ UNCHANGED <<code, lexer, tokens, pos, node, child, tree, positions>>

Init == InitWith(ParseInputs, "parse")

Next ==
  \/ Parse
  \/ ProgIntDeclare
  \/ ProgExpressionStatement
  \/ ProgAssignmentStatement
  \/ ProgReturn
  \/ Evaluate

Spec == Init /\ [][Next]_vars

---------------------------------------------------------------------------
\* One rule called on a reader the caller has positioned by reading

Tokenize ==
  /\ pc = "script"
  /\ tokens' = tokenize(code)
  /\ pos' = 0
  /\ pc' = "reader"
  /\ UNCHANGED <<code, lexer, node, child, tree, error, variables, result, positions>>

Read ==
  /\ pc = "reader"
  /\ pos' = read(tokens, pos).pos
  /\ UNCHANGED <<code, lexer, tokens, pc, node, child, tree, error, variables, result, positions>>

CallRule(rule, r) ==
  /\ pc = "reader"
  /\ child' = Call(rule, pos, r)
  /\ pos' = r.pos
  /\ error' = r.err
  /\ pc' = IF r.err # NoError THEN "syntaxError" ELSE "returned"
  /\ UNCHANGED <<code, lexer, tokens, node, tree, variables, result, positions>>

CallIntDeclare == CallRule("intDeclare", intDeclare(tokens, pos))

CallExpressionStatement ==
  CallRule("expressionStatement", expressionStatement(tokens, pos))

CallAssignmentStatement ==
  CallRule("assignmentStatement", assignmentStatement(tokens, pos))

InitRules == InitWith(RuleInputs, "script")

NextRules ==
  \/ Tokenize
  \/ Read
  \/ CallIntDeclare
  \/ CallExpressionStatement
  \/ CallAssignmentStatement

SpecRules == InitRules /\ [][NextRules]_vars

---------------------------------------------------------------------------
\* SimpleTokenReader under any sequence of calls by its caller

\* What a call on the reader left behind: the method, its arguments, the
\* token it returned, the cursor before and after.
ReaderCall(method, args, token, exit) ==
  [rule |-> method, args |-> args, token |-> token, entry |-> pos, exit |-> exit,
   node |-> NoNode, err |-> NoError]

\* lexer.tokenize(code) hands out new SimpleTokenReader(this.tokens)
NewReader ==
  /\ pc = "lexer"
  /\ tokens' = tokenize(code)
  /\ pos' = 0
  /\ pc' = "cursor"
  /\ UNCHANGED <<code, lexer, node, child, tree, error, variables, result, positions>>

ReaderStep(method, args, token, exit) ==
  /\ pc = "cursor"
  /\ pos' = exit
  /\ child' = ReaderCall(method, args, token, exit)
  /\ UNCHANGED <<code, lexer, tokens, pc, node, tree, error, variables, result>>

ReadToken ==
  /\ ReaderStep("read", <<>>, read(tokens, pos).token, read(tokens, pos).pos)
  /\ UNCHANGED positions

Peek ==
  /\ ReaderStep("peek", <<>>, peek(tokens, pos), pos)
  /\ UNCHANGED positions

Unread ==
  /\ ReaderStep("unread", <<>>, NoToken, unread(tokens, pos))
  /\ UNCHANGED positions

GetPosition ==
  /\ ReaderStep("getPosition", <<>>, NoToken, pos)
  /\ positions' = positions \cup {getPosition(tokens, pos)}

SetPosition ==
  \E position \in (0 - 2)..(Len(tokens) + 2) :
    /\ ReaderStep("setPosition", <<position>>, NoToken,
                  setPosition(tokens, pos, position))
    /\ UNCHANGED positions

InitReader == InitWith(ReaderInputs, "lexer")

NextReader ==
  \/ NewReader
  \/ ReadToken
  \/ Peek
  \/ Unread
  \/ GetPosition
  \/ SetPosition

SpecReader == InitReader /\ [][NextReader]_vars

(***************************************************************************)
(* Claims                                                                  *)
(***************************************************************************)
RECURSIVE Nodes(_)
\* Every node of a tree
Nodes(nd) ==
  IF nd = NoNode THEN {}
  ELSE {nd} \cup UNION {Nodes(nd.children[k]) : k \in 1..Len(nd.children)}

RECURSIVE Flatten(_)
Flatten(seqs) == IF seqs = <<>> THEN <<>> ELSE Head(seqs) \o Flatten(Tail(seqs))

RECURSIVE Unparse(_)
\* The token texts a tree without parentheses was parsed from
Unparse(nd) ==
  CASE nd.type = "Programm" ->
         Flatten([k \in 1..Len(nd.children) |-> Unparse(nd.children[k]) \o <<<<";">>>>])
    [] nd.type = "IntDeclaration" ->
         <<<<"i","n","t">>, nd.text>>
           \o (IF nd.children = <<>> THEN <<>>
               ELSE <<<<"=">>>> \o Unparse(nd.children[1]))
    [] nd.type = "AssignmentStmt" -> <<nd.text, <<"=">>>> \o Unparse(nd.children[1])
    [] nd.type \in {"Additive", "Multiplicative"} ->
         Unparse(nd.children[1]) \o <<nd.text>> \o Unparse(nd.children[2])
    [] OTHER -> <<nd.text>>

Texts(toks) == [k \in 1..Len(toks) |-> toks[k].text]

Types(toks) == {toks[k].type : k \in 1..Len(toks)}

NoParentheses == Types(tokens) \cap {"LeftParen", "RightParen"} = {}

Returned == pc \in {"parsed", "evaluated", "evaluateError"}

Leaf(type, digitOrName) == SimpleASTNode(type, <<digitOrName>>, <<>>)

Binary(type, op, left, right) == SimpleASTNode(type, <<op>>, <<left, right>>)

Programm(children) == SimpleASTNode("Programm", <<"d","e","m","o">>, children)

\* C1: a chain of + and - is folded to the left: in the tree of a program
\* without parentheses no Additive node has an Additive right child and the
\* tree reads back, left to right, as the tokens; "2+3+4;" is
\* Additive(Additive(2,3),4) and evaluates to 9, "8-4-2;" to (8-4)-2 = 2.
C1_AdditiveLeftAssociative ==
  /\ (Returned /\ NoParentheses) =>
       /\ \A n \in Nodes(tree) :
            n.type = "Additive" => n.children[2].type # "Additive"
       /\ Unparse(tree) = Texts(tokens)
  /\ (Returned /\ code = <<"2","+","3","+","4",";">>) =>
       tree = Programm(<<Binary("Additive", "+",
                           Binary("Additive", "+", Leaf("IntLiteral", "2"),
                                  Leaf("IntLiteral", "3")),
                           Leaf("IntLiteral", "4"))>>)
  /\ (pc # "parsed" /\ Returned /\ code = <<"2","+","3","+","4",";">>) =>
       (pc = "evaluated" /\ result = Num(9))
  /\ (pc # "parsed" /\ Returned /\ code = <<"8","-","4","-","2",";">>) =>
       (pc = "evaluated" /\ result = Num(2))

C1_Witness ==
  /\ pc = "evaluated"
  /\ code = <<"2","+","3","+","4",";">>
  /\ result = Num(9)
  /\ tree.children[1].children[1].type = "Additive"

\* C2: a chain of * and / is folded to the left: in the tree of a program
\* without parentheses the right child of a Multiplicative node is a single
\* primary, never a Multiplicative node.
C2_MultiplicativeLeftAssociative ==
  (Returned /\ NoParentheses) =>
    \A n \in Nodes(tree) :
      n.type = "Multiplicative" => n.children[2].type \in {"IntLiteral", "Identifier"}

\* C3: * and / bind tighter than + and -: in the tree of a program without
\* parentheses no Multiplicative node has an Additive child; "1+2*3;" is
\* Additive(1, Multiplicative(2,3)) and evaluates to 7.
C3_MultiplicativeBindsTighter ==
  /\ (Returned /\ NoParentheses) =>
       \A n \in Nodes(tree) :
         n.type = "Multiplicative" =>
           n.children[1].type # "Additive" /\ n.children[2].type # "Additive"
  /\ (Returned /\ code = <<"1","+","2","*","3",";">>) =>
       tree = Programm(<<Binary("Additive", "+", Leaf("IntLiteral", "1"),
                           Binary("Multiplicative", "*", Leaf("IntLiteral", "2"),
                                  Leaf("IntLiteral", "3")))>>)
  /\ (pc # "parsed" /\ Returned /\ code = <<"1","+","2","*","3",";">>) =>
       (pc = "evaluated" /\ result = Num(7))

C3_Witness ==
  /\ pc = "evaluated"
  /\ code = <<"1","+","2","*","3",";">>
  /\ result = Num(7)
  /\ tree.children[1].children[2].type = "Multiplicative"

\* C4: whenever expressionStatement returns null, the cursor on return is
\* where it was on entry, whatever the tokens and the entry position.
C4_ExpressionStatementRewinds ==
  (child.rule = "expressionStatement" /\ child.err = NoError /\ child.node = NoNode)
    => child.exit = child.entry

\* a null return from an entry position past the first token, after an
\* additive of more than one token
C4_Witness ==
  /\ child.rule = "expressionStatement"
  /\ child.err = NoError
  /\ child.node = NoNode
  /\ child.entry > 0
  /\ additive(tokens, child.entry).pos > child.entry + 1
  /\ pos = child.entry

\* An additive expression parses at p and no ';' follows it.
AdditiveWithoutSemiColon(toks, p) ==
  LET r == additive(toks, p) IN
  r.err = NoError /\ r.node # NoNode /\ peek(toks, r.pos).type # "SemiColon"

\* C5: a well-formed additive expression with no ';' after it does not make
\* the expressionStatement probe throw: the probe returns null with the
\* cursor back and assignmentStatement is tried; 'unknown statement' is
\* raised only after assignmentStatement has returned null too ("2+3").
C5_ProbeDoesNotRaise ==
  /\ (child.rule = "expressionStatement"
        /\ AdditiveWithoutSemiColon(tokens, child.entry)) =>
       /\ child.err = NoError
       /\ child.node = NoNode
       /\ error = NoError
       /\ pc = "assignmentStatement"
       /\ pos = child.entry
  /\ error = "unknown statement" =>
       /\ pc = "syntaxError"
       /\ child.rule = "assignmentStatement"
       /\ child.err = NoError
       /\ child.node = NoNode
       /\ AdditiveWithoutSemiColon(tokens, child.entry)
  /\ (code = <<"2","+","3">> /\ pc = "syntaxError") => error = "unknown statement"

C5_Witness ==
  /\ code = <<"2","+","3">>
  /\ pc = "syntaxError"
  /\ error = "unknown statement"
  /\ child.rule = "assignmentStatement"

BinaryOperators == {"Plus", "Minus", "Star", "Slash"}

PrimaryStart == {"IntLiteral", "Identifier", "LeftParen"}

\* Some operator token has no primary expression after it.
OperatorWithoutOperand(toks) ==
  \E k \in 1..Len(toks) :
    /\ toks[k].type \in BinaryOperators
    /\ k = Len(toks) \/ toks[k + 1].type \notin PrimaryStart

\* C6: an operator with no primary expression after it is never parsed into
\* a tree: parse throws and returns no AST ("2+"), and every Additive or
\* Multiplicative node of a returned tree has its two operands.
C6_MissingOperandIsAnError ==
  /\ OperatorWithoutOperand(tokens) => ~Returned /\ tree = NoNode
  /\ pc = "syntaxError" => tree = NoNode /\ error # NoError
  /\ \A n \in Nodes(tree) :
       n.type \in {"Additive", "Multiplicative"} =>
         /\ Len(n.children) = 2
         /\ \A k \in 1..2 :
              n.children[k].type \in
                {"Additive", "Multiplicative", "IntLiteral", "Identifier"}
  /\ (code = <<"2","+">> /\ pc \notin {"parse", "prog", "expressionStatement"}) =>
       (pc = "syntaxError" /\ error = "primary expression expected")

C6_Witness ==
  /\ code = <<"2","+">>
  /\ pc = "syntaxError"
  /\ error = "primary expression expected"
  /\ pos = 2
  /\ tree = NoNode

\* C7: when the tokens at a statement start match none of the three rules,
\* parse fails with 'unknown statement', whatever token stands there.
C7_UnknownStatement ==
  (pc = "syntaxError" /\ child.entry < Len(tokens)
     /\ tokens[child.entry + 1].type \notin {"Int"} \cup PrimaryStart)
    => error = "unknown statement"

\* The step stored a token: tokens grew by one.
Pushed == Len(lexer'.tokens) = Len(lexer.tokens) + 1

\* The token the step stored; it ends at the character before the one the
\* step looked at, which is character lexer.i of code.
PushedToken == lexer'.tokens[Len(lexer'.tokens)]

PushedFirst == lexer.i - Len(PushedToken.text) + 1

\* The character right after the stored token is a blank.
BlankFollows == lexer.i < Len(code) /\ isBlank(code[lexer.i + 1])

RECURSIVE RunEnd(_, _)
\* The last index of the run of letters and digits that begins at index k
RunEnd(src, k) ==
  IF k < Len(src) /\ (isAlpha(src[k + 1]) \/ isDigit(src[k + 1]))
  THEN RunEnd(src, k + 1) ELSE k

IsPrefix(a, b) == Len(a) <= Len(b) /\ SubSeq(b, 1, Len(a)) = a

INT == <<"i","n","t">>

\* C8: a stored token has kind Int exactly when its text is "int" and the
\* character right after it is a blank; the text of any token is the piece
\* of code it ends; "int age = 30" gives Int, Identifier age, Assignment,
\* IntLiteral 30.
C8_IntKeyword ==
  /\ [][Pushed =>
          /\ PushedToken.text = SubSeq(code, PushedFirst, lexer.i)
          /\ PushedToken.type = "Int" <=> (PushedToken.text = INT /\ BlankFollows)
       ]_vars
  /\ [](\A k \in 1..Len(tokens) : tokens[k].type = "Int" => tokens[k].text = INT)
  /\ []((pc = "tokenized" /\ code = <<"i","n","t"," ","a","g","e"," ","="," ","3","0">>)
          => tokens = << SimpleToken("Int", INT),
                         SimpleToken("Identifier", <<"a","g","e">>),
                         SimpleToken("Assignment", <<"=">>),
                         SimpleToken("IntLiteral", <<"3","0">>) >>)

\* "1int " is tokenized: the keyword after a literal, closed by a blank
C8_Witness ==
  /\ pc = "tokenized"
  /\ code = <<"1","i","n","t"," ">>
  /\ tokens = <<SimpleToken("IntLiteral", <<"1">>), SimpleToken("Int", INT)>>

\* C9: a token that begins with 'i' and whose run of letters and digits is
\* not "int" before a blank is stored as one Identifier holding the whole
\* run; "inta age = 30;" begins with Identifier inta, "in age = 30;" with
\* Identifier in.
C9_IdentifierKeepsRun ==
  /\ [][(Pushed /\ PushedToken.text[1] = "i") =>
          LET last == RunEnd(code, PushedFirst)
              run == SubSeq(code, PushedFirst, last)
          IN  \/ run = INT /\ last < Len(code) /\ isBlank(code[last + 1])
              \/ PushedToken.type = "Identifier" /\ IsPrefix(run, PushedToken.text)
       ]_vars
  /\ []((pc = "tokenized"
          /\ code = <<"i","n","t","a"," ","a","g","e"," ","="," ","3","0",";">>)
          => tokens[1] = SimpleToken("Identifier", <<"i","n","t","a">>))
  /\ []((pc = "tokenized"
          /\ code = <<"i","n"," ","a","g","e"," ","="," ","3","0",";">>)
          => tokens[1] = SimpleToken("Identifier", <<"i","n">>))

C9_Witness ==
  /\ pc = "tokenized"
  /\ code = <<"i","n","t","a"," ","a","g","e"," ","="," ","3","0",";">>
  /\ tokens[1] = SimpleToken("Identifier", <<"i","n","t","a">>)
  /\ tokens[2] = SimpleToken("Identifier", <<"a","g","e">>)

Occurrences(src, P(_)) == Cardinality({k \in 1..Len(src) : P(k)})

\* C10: every '>' with '=' right after it is one GE token ">=", every other
\* '>' is one GT token ">", and there are no other GE or GT tokens.
C10_GreaterEqual ==
  pc = "tokenized" =>
    LET isGE(k) == code[k] = ">" /\ k < Len(code) /\ code[k + 1] = "="
        isGT(k) == code[k] = ">" /\ ~isGE(k)
        tokenGE(k) == tokens[k] = SimpleToken("GE", <<">","=">>)
        tokenGT(k) == tokens[k] = SimpleToken("GT", <<">">>)
    IN  /\ Occurrences(tokens, tokenGE) = Occurrences(code, isGE)
        /\ Occurrences(tokens, tokenGT) = Occurrences(code, isGT)
        /\ \A k \in 1..Len(tokens) :
             tokens[k].type \in {"GE", "GT"} => tokenGE(k) \/ tokenGT(k)

\* A character initToken begins a token with; every other one is skipped.
Recognized(ch) ==
  isAlpha(ch) \/ isDigit(ch) \/ ch \in {">", "+", "-", "*", "/", ";", "(", ")", "="}

\* C11: the texts of the tokens tokenize returns, joined in order, are the
\* input without its blanks and its unrecognized characters.
C11_NoCharacterLost ==
  pc = "tokenized" => Flatten(Texts(tokens)) = SelectSeq(code, Recognized)

\* C12: the text of every Identifier token is a letter followed by letters
\* and digits only, the text of every IntLiteral token is digits only.
C12_TokenTexts ==
  pc = "tokenized" =>
    \A k \in 1..Len(tokens) :
      LET text == tokens[k].text IN
      /\ tokens[k].type = "Identifier" =>
           /\ isAlpha(text[1])
           /\ \A j \in 1..Len(text) : isAlpha(text[j]) \/ isDigit(text[j])
      /\ tokens[k].type = "IntLiteral" =>
           /\ Len(text) > 0
           /\ \A j \in 1..Len(text) : isDigit(text[j])

\* C13: whatever calls of read, peek, unread and setPosition the caller
\* makes, setPosition with any integer, the cursor stays within 0..len.
C13_PositionInRange == 0 <= pos /\ pos <= Len(tokens)

\* setPosition with a negative argument, at the end of the stream
C13_Witness ==
  /\ child.rule = "setPosition"
  /\ child.args[1] < 0
  /\ Len(tokens) > 1
  /\ child.entry = Len(tokens)
  /\ pos = Len(tokens)

\* C14: setPosition(p) with a p that getPosition has returned puts the
\* cursor at p, the end-of-stream position p = len included.
C14_RewindToRecorded ==
  (child.rule = "setPosition" /\ child.args[1] \in positions) =>
    (child.exit = child.args[1] /\ pos = child.args[1])

\* evaluate has returned or thrown
Evaluated == pc \in {"evaluated", "evaluateError"}

\* The expression a statement evaluates: its initializer or right-hand side,
\* or the statement itself
Expression(stmt) ==
  IF stmt.type \in {"IntDeclaration", "AssignmentStmt"}
  THEN IF stmt.children = <<>> THEN NoNode ELSE stmt.children[1]
  ELSE stmt

\* The environment after a statement that completes against env
Bind(stmt, env) ==
  IF stmt.type \in {"IntDeclaration", "AssignmentStmt"}
  THEN set(env, stmt.text,
           IF stmt.children = <<>> THEN NullValue
           ELSE evaluate(stmt.children[1], env).result)
  ELSE env

RECURSIVE EnvBefore(_, _)
\* The bindings statements 1..k-1 produce, in order
EnvBefore(stmts, k) ==
  IF k <= 1 THEN NoVariables ELSE Bind(stmts[k - 1], EnvBefore(stmts, k - 1))

Fails(stmts, k) == evaluate(stmts[k], EnvBefore(stmts, k)).err # NoError

\* Statements 1..k-1 complete, so that statement k is evaluated
Reached(stmts, k) == \A j \in 1..(k - 1) : ~Fails(stmts, j)

\* C15: the statements of a Program are evaluated in order against one
\* environment, each reading the bindings of the earlier ones, and the result
\* is that of the last statement: "int age = 1+2; age+3;" binds age to 3 and
\* yields 6.
C15_ProgramInOrder ==
  /\ pc = "evaluated" =>
       LET stmts == tree.children
           n == Len(stmts)
       IN  /\ variables = EnvBefore(stmts, n + 1)
           /\ result = IF n = 0 THEN NullValue
                       ELSE evaluate(stmts[n], EnvBefore(stmts, n)).result
  /\ (Evaluated
        /\ code = <<"i","n","t"," ","a","g","e"," ","="," ","1","+","2",";"," ",
                    "a","g","e","+","3",";">>) =>
       /\ pc = "evaluated"
       /\ EnvBefore(tree.children, 2) = [x \in {<<"a","g","e">>} |-> Num(3)]
       /\ variables = [x \in {<<"a","g","e">>} |-> Num(3)]
       /\ result = Num(6)

C15_Witness ==
  /\ pc = "evaluated"
  /\ code = <<"i","n","t"," ","a","g","e"," ","="," ","1","+","2",";"," ",
              "a","g","e","+","3",";">>
  /\ variables[<<"a","g","e">>] = Num(3)
  /\ result = Num(6)

RECURSIVE FirstLeaf(_)
\* The leaf of an expression that is evaluated first
FirstLeaf(nd) ==
  IF nd = NoNode \/ nd.children = <<>> THEN nd ELSE FirstLeaf(nd.children[1])

\* Statement k is evaluated, and the first thing it does is to read variable
\* name: its expression begins with that Identifier, and an assignment's
\* target exists.
ReadsFirst(stmts, k, name) ==
  /\ Reached(stmts, k)
  /\ FirstLeaf(Expression(stmts[k])) = SimpleASTNode("Identifier", name, <<>>)
  /\ stmts[k].type = "AssignmentStmt" => has(EnvBefore(stmts, k), stmts[k].text)

Names(stmts) == {nd.text : nd \in UNION {Nodes(stmts[k]) : k \in 1..Len(stmts)}}

\* evaluate threw msg out of statement k
ThrownAt(stmts, k, msg) ==
  pc = "evaluateError" /\ error = msg /\ variables = EnvBefore(stmts, k)

\* C16: reading an Identifier whose name is no key of the environment throws
\* the unknown-variable error; reading one that was declared without an
\* initializer and never assigned throws the unset-variable error
\* ("int a; a+1;").
C16_UnknownAndUnset ==
  /\ Evaluated =>
       LET stmts == tree.children IN
       \A k \in 1..Len(stmts) : \A name \in Names(stmts) :
         LET env == EnvBefore(stmts, k) IN
         ReadsFirst(stmts, k, name) =>
           /\ ~has(env, name) => ThrownAt(stmts, k, UnknownVariable)
           /\ (has(env, name) /\ env[name] = NullValue) =>
                ThrownAt(stmts, k, UnsetVariable)
  /\ (Evaluated /\ code = <<"i","n","t"," ","a",";"," ","a","+","1",";">>) =>
       (pc = "evaluateError" /\ error = UnsetVariable)
  /\ (Evaluated /\ code = <<"a"," ",";"," ">>) =>
       (pc = "evaluateError" /\ error = UnknownVariable)

C16_Witness ==
  /\ pc = "evaluateError"
  /\ code = <<"i","n","t"," ","a",";"," ","a","+","1",";">>
  /\ error = UnsetVariable
  /\ variables = [x \in {<<"a">>} |-> NullValue]

\* The statement evaluate threw out of
Failing(stmts) == CHOOSE k \in 1..Len(stmts) : Reached(stmts, k) /\ Fails(stmts, k)

\* C17: reading an Identifier bound to an integer v returns v, whatever v
\* is, and the unset-variable error is thrown only for a name bound to the
\* unset marker.
C17_BoundIdentifierReturnsValue ==
  Evaluated =>
    LET stmts == tree.children
        n == Len(stmts)
    IN  /\ \A name \in Names(stmts) :
             LET env == EnvBefore(stmts, n) IN
             (/\ n > 0
              /\ stmts[n] = SimpleASTNode("Identifier", name, <<>>)
              /\ Reached(stmts, n)
              /\ has(env, name)
              /\ env[name].k = "int") =>
               (pc = "evaluated" /\ result = env[name])
        /\ (pc = "evaluateError" /\ error = UnsetVariable) =>
             LET k == Failing(stmts)
                 env == EnvBefore(stmts, k)
             IN  \E nd \in Nodes(Expression(stmts[k])) :
                   /\ nd.type = "Identifier"
                   /\ has(env, nd.text)
                   /\ env[nd.text] = NullValue

\* Some '/' of the statement has a right operand that evaluates to 0.
DividesByZero(stmt, env) ==
  \E nd \in Nodes(Expression(stmt)) :
    /\ nd.type = "Multiplicative"
    /\ nd.text = <<"/">>
    /\ LET r == evaluate(nd.children[2], env) IN
         r.err = NoError /\ isZero(toNumber(r.result))

IntegerOrUnset(x) == x = NullValue \/ x.k = "int"

\* C18: a '/' whose right operand evaluates to 0 makes evaluate throw; no
\* result and no variable is a value that is not an integer.
C18_DivisionByZeroRaises ==
  Evaluated =>
    LET stmts == tree.children IN
    /\ \A k \in 1..Len(stmts) :
         (Reached(stmts, k) /\ DividesByZero(stmts[k], EnvBefore(stmts, k))) =>
           (pc = "evaluateError" /\ variables = EnvBefore(stmts, k))
    /\ IntegerOrUnset(result)
    /\ \A name \in DOMAIN variables : IntegerOrUnset(variables[name])

\* C19: an assignment to a name that is no key of the environment throws the
\* unknown-variable error before its right-hand side is evaluated and leaves
\* the environment as it was, without the name: "int b; a = b+1;" throws
\* it although reading b would throw the unset-variable error.
C19_AssignmentToUnknown ==
  /\ Evaluated =>
       LET stmts == tree.children IN
       \A k \in 1..Len(stmts) :
         (/\ Reached(stmts, k)
          /\ stmts[k].type = "AssignmentStmt"
          /\ ~has(EnvBefore(stmts, k), stmts[k].text)) =>
           /\ ThrownAt(stmts, k, UnknownVariable)
           /\ ~has(variables, stmts[k].text)
  /\ (Evaluated
        /\ code = <<"i","n","t"," ","b",";"," ","a"," ","="," ","b","+","1",";">>) =>
       /\ pc = "evaluateError"
       /\ error = UnknownVariable
       /\ variables = [x \in {<<"b">>} |-> NullValue]

C19_Witness ==
  /\ pc = "evaluateError"
  /\ code = <<"i","n","t"," ","b",";"," ","a"," ","="," ","b","+","1",";">>
  /\ error = UnknownVariable
  /\ DOMAIN variables = {<<"b">>}

\* C20: when statement k throws, the environment holds the bindings of
\* statements 1..k-1 and nothing else: the failing statement binds nothing
\* and no later statement is evaluated.
C20_ErrorKeepsEarlierBindings ==
  pc = "evaluateError" =>
    LET stmts == tree.children IN
    \E k \in 1..Len(stmts) :
      /\ Reached(stmts, k)
      /\ Fails(stmts, k)
      /\ error = evaluate(stmts[k], EnvBefore(stmts, k)).err
      /\ variables = EnvBefore(stmts, k)
      /\ result = NullValue

\* a declaration fails as the second statement, after one that bound a name
C20_Witness ==
  /\ pc = "evaluateError"
  /\ Len(tree.children) = 2
  /\ tree.children[2].type = "IntDeclaration"
  /\ DOMAIN variables = {tree.children[1].text}
  /\ tree.children[2].text \notin DOMAIN variables

IsParenthesis(token) == token.type \in {"LeftParen", "RightParen"}

IsSemiColon(token) == token.type = "SemiColon"

NotParenthesis(token) == ~IsParenthesis(token)

\* C21: in the tree parse returns every Additive and every Multiplicative
\* node has exactly two children, and the children of the Programm node are
\* the statements in source order, one for each: as many as there are ';'
\* tokens, and read in order they give back the tokens, parentheses aside.
C21_TreeShape ==
  Returned =>
    /\ \A n \in Nodes(tree) :
         n.type \in {"Additive", "Multiplicative"} => Len(n.children) = 2
    /\ tree.type = "Programm"
    /\ Len(tree.children) = Len(SelectSeq(tokens, IsSemiColon))
    /\ Unparse(tree) = Texts(SelectSeq(tokens, NotParenthesis))

\* two statements, one of them a product with a sum in parentheses
C21_Witness ==
  /\ pc = "parsed"
  /\ Len(tree.children) = 2
  /\ ~NoParentheses
  /\ \E n \in Nodes(tree) : n.type = "Multiplicative" /\ n.children[1].type = "Additive"

DfaState ==
  {"Initial", "Int", "Id_int1", "Id_int2", "Id_int3", "Id", "GT", "GE", "Assignment",
   "Plus", "Minus", "Star", "Slash", "SemiColon", "LeftParen", "RightParen",
   "IntLiteral"}

\* C22: tokenize runs to its return on every input and knows no error state:
\* a blank or an unrecognized character never begins a token, and an input of
\* such characters only gives the empty token list.
C22_LexerNeverFails ==
  /\ lexer.state \in DfaState
  /\ error = NoError
  /\ lexer.i <= Len(code)
  /\ pc = "tokenize" => ENABLED NextLexer
  /\ \A k \in 1..Len(lexer.tokens) : Recognized(lexer.tokens[k].text[1])
  /\ Len(lexer.tokens) <= Len(SelectSeq(SubSeq(code, 1, lexer.i), Recognized))
  /\ (pc = "tokenized" /\ SelectSeq(code, Recognized) = <<>>) => tokens = <<>>

C22_Witness ==
  /\ pc = "tokenized"
  /\ code = <<" ","#","\n","@","\t">>
  /\ tokens = <<>>
  /\ lexer.state = "Initial"

\* C23: when intDeclare or assignmentStatement returns null, the cursor is
\* where it was when the rule was entered.
C23_NoMatchConsumesNothing ==
  (child.rule \in {"intDeclare", "assignmentStatement"}
     /\ child.err = NoError /\ child.node = NoNode)
    => (child.exit = child.entry /\ (pc # "reader" => pos = child.entry))

\* assignmentStatement gave back the Identifier it read, past the first token
C23_Witness ==
  /\ child.rule = "assignmentStatement"
  /\ child.err = NoError
  /\ child.node = NoNode
  /\ child.entry > 0
  /\ peek(tokens, child.entry).type = "Identifier"
  /\ pos = child.entry

TypeAt(toks, k) == IF k >= 1 /\ k <= Len(toks) THEN toks[k].type ELSE "null"

\* The rule called at entry has committed to a declaration or an assignment.
IsDeclaration(toks, entry) ==
  TypeAt(toks, entry + 1) = "Int" /\ TypeAt(toks, entry + 2) = "Identifier"

IsAssignment(toks, entry) ==
  TypeAt(toks, entry + 1) = "Identifier" /\ TypeAt(toks, entry + 2) = "Assignment"

\* Where the expression of the statement a rule parses begins: the cursor
\* before it; -1 when the tokens commit the rule to no expression.
ExpressionStart(rule, toks, entry) ==
  CASE rule = "intDeclare" /\ IsDeclaration(toks, entry)
         /\ TypeAt(toks, entry + 3) = "Assignment" -> entry + 3
    [] rule = "assignmentStatement" /\ IsAssignment(toks, entry) -> entry + 2
    [] rule = "expressionStatement" -> entry
    [] OTHER -> 0 - 1

\* The cursor where the terminator of a committed declaration or assignment
\* is due; -1 when the rule is not committed or its expression does not parse.
TerminatorDue(rule, toks, entry) ==
  LET start == ExpressionStart(rule, toks, entry) IN
  IF rule = "intDeclare" /\ IsDeclaration(toks, entry) /\ start < 0
  THEN entry + 2
  ELSE IF rule \in {"intDeclare", "assignmentStatement"} /\ start >= 0
  THEN LET r == additive(toks, start) IN
       IF r.err = NoError /\ r.node # NoNode THEN r.pos ELSE 0 - 1
  ELSE 0 - 1

\* The cursor where ')' is due when the rule's expression begins with '(';
\* -1 when it does not or the expression inside does not parse.
RightParenDue(rule, toks, entry) ==
  LET start == ExpressionStart(rule, toks, entry) IN
  IF start >= 0 /\ TypeAt(toks, start + 1) = "LeftParen"
  THEN LET r == additive(toks, start + 1) IN
       IF r.err = NoError /\ r.node # NoNode THEN r.pos ELSE 0 - 1
  ELSE 0 - 1

MissingSemiColon == "invalid statement, expecting semicolon"

MissingRightParen == "expecting right parenthesis"

\* The rule call threw msg and that ended parse without a tree.
Aborted(msg) ==
  child.err = msg /\ pc = "syntaxError" /\ error = msg /\ tree = NoNode

\* C24: after 'int Identifier', with or without initializer, and after
\* 'Identifier = additive', a next token that is not ';', or none, ends
\* parse with the missing-semicolon error; after '(' additive a next token
\* that is not ')' ends it with the missing-right-parenthesis error.
C24_MissingTerminator ==
  /\ LET due == TerminatorDue(child.rule, tokens, child.entry) IN
     (due >= 0 /\ TypeAt(tokens, due + 1) # "SemiColon") => Aborted(MissingSemiColon)
  /\ LET due == RightParenDue(child.rule, tokens, child.entry) IN
     (due >= 0 /\ TypeAt(tokens, due + 1) # "RightParen") => Aborted(MissingRightParen)

\* a declaration followed by a token that is not ';'
C24_Witness ==
  /\ child.rule = "intDeclare"
  /\ IsDeclaration(tokens, child.entry)
  /\ peek(tokens, pos) # NoToken
  /\ Aborted(MissingSemiColon)

\* C25: '=' with no expression after it raises the rule's own 'expecting an
\* expression' error ("int a = ;", "a = ;"), which is neither the error of
\* an operator without right operand nor 'unknown statement'.
C25_MissingExpressionIsDistinct ==
  LET start == ExpressionStart(child.rule, tokens, child.entry) IN
  (start >= 0 /\ TypeAt(tokens, start + 1) \notin PrimaryStart) =>
    /\ child.rule = "intDeclare" =>
         Aborted("invalide variable initialization, expecting an expression")
    /\ child.rule = "assignmentStatement" =>
         Aborted("invalide assignment statement, expecting an expression")

\* q is the floor of the exact quotient a / b, b # 0.
IsFloor(q, a, b) ==
  IF b > 0 THEN q * b <= a /\ a < (q + 1) * b
  ELSE q * b >= a /\ a > (q + 1) * b

\* nd is a '/' whose operands evaluate to the integers a and b # 0 in env;
\* its value is the floor of a / b.
DividesToFloor(nd, env) ==
  LET a == evaluate(nd.children[1], env)
      b == evaluate(nd.children[2], env)
      q == evaluate(nd, env)
  IN  (/\ a.err = NoError /\ b.err = NoError
       /\ a.result.k = "int" /\ b.result.k = "int" /\ b.result.v # 0) =>
        /\ q.err = NoError
        /\ isFinite(q.result)
        /\ IsFloor(magnitude(q.result), a.result.v, b.result.v)

IsDivision(nd) == nd.type = "Multiplicative" /\ nd.text = <<"/">>

\* C26: a / b with b # 0 is the floor of the exact quotient, for every '/' a
\* program evaluates; a statement that is such a division returns it, and
\* "(0-7)/2;" returns -4.
C26_FloorDivision ==
  /\ Evaluated =>
       LET stmts == tree.children
           n == Len(stmts)
       IN  /\ \A k \in 1..n : \A nd \in Nodes(Expression(stmts[k])) :
                (Reached(stmts, k) /\ IsDivision(nd)) =>
                  DividesToFloor(nd, EnvBefore(stmts, k))
           /\ (n > 0 /\ Reached(stmts, n) /\ IsDivision(stmts[n])) =>
                LET env == EnvBefore(stmts, n)
                    a == evaluate(stmts[n].children[1], env)
                    b == evaluate(stmts[n].children[2], env)
                IN  (/\ a.err = NoError /\ b.err = NoError
                     /\ a.result.k = "int" /\ b.result.k = "int"
                     /\ b.result.v # 0) =>
                      /\ pc = "evaluated"
                      /\ isFinite(result)
                      /\ IsFloor(magnitude(result), a.result.v, b.result.v)
  /\ (Evaluated /\ code = <<"(","0","-","7",")","/","2",";">>) =>
       (pc = "evaluated" /\ result = Num(0 - 4))

C26_Witness ==
  /\ pc = "evaluated"
  /\ code = <<"(","0","-","7",")","/","2",";">>
  /\ result = Num(0 - 4)

RedeclaredUnset ==
  <<"i","n","t"," ","a"," ","="," ","2",";"," ","i","n","t"," ","a",";"," ","a",";">>

RedeclaredInitialized ==
  <<"i","n","t"," ","a"," ","="," ","2",";"," ",
    "i","n","t"," ","a"," ","="," ","3",";"," ","a",";">>

\* C27: a declaration binds its name to the value of its initializer, or to
\* the unset marker when it has none, whether or not the name is declared
\* already; after "int a = 2; int a;" reading a throws the unset-variable
\* error, after "int a = 2; int a = 3;" it gives 3.
C27_DeclarationBinds ==
  /\ Evaluated =>
       LET stmts == tree.children
           n == Len(stmts)
       IN  (n > 0 /\ Reached(stmts, n) /\ stmts[n].type = "IntDeclaration") =>
             LET env == EnvBefore(stmts, n)
                 name == stmts[n].text
             IN  IF stmts[n].children = <<>>
                 THEN /\ pc = "evaluated"
                      /\ has(variables, name)
                      /\ variables[name] = NullValue
                 ELSE LET v == evaluate(stmts[n].children[1], env) IN
                      v.err = NoError =>
                        /\ pc = "evaluated"
                        /\ has(variables, name)
                        /\ variables[name] = v.result
  /\ (Evaluated /\ code = RedeclaredUnset) =>
       /\ pc = "evaluateError"
       /\ error = UnsetVariable
       /\ variables = [x \in {<<"a">>} |-> NullValue]
  /\ (Evaluated /\ code = RedeclaredInitialized) =>
       /\ pc = "evaluated"
       /\ result = Num(3)
       /\ variables = [x \in {<<"a">>} |-> Num(3)]

C27_Witness ==
  /\ pc = "evaluateError"
  /\ code = RedeclaredUnset
  /\ error = UnsetVariable
  /\ variables[<<"a">>] = NullValue

\* C29: an expression statement leaves every binding as it was, whether it
\* returns or throws; a declaration or an assignment changes no binding but
\* that of its own name.
C29_OnlyOwnBindingChanges ==
  Evaluated =>
    LET stmts == tree.children
        n == Len(stmts)
    IN  (n > 0 /\ Reached(stmts, n)) =>
          LET env == EnvBefore(stmts, n) IN
          IF stmts[n].type \in {"IntDeclaration", "AssignmentStmt"}
          THEN /\ DOMAIN env \subseteq DOMAIN variables
               /\ DOMAIN variables \subseteq DOMAIN env \cup {stmts[n].text}
               /\ \A x \in DOMAIN env \ {stmts[n].text} : variables[x] = env[x]
          ELSE variables = env

\* a second declaration has left the binding of the first as it was
C29_Witness ==
  /\ pc = "evaluated"
  /\ Len(tree.children) = 2
  /\ tree.children[2].type = "IntDeclaration"
  /\ Cardinality(DOMAIN variables) = 2
  /\ variables[tree.children[1].text] = EnvBefore(tree.children, 2)[tree.children[1].text]
  /\ variables[tree.children[1].text] # NullValue

Parsing == pc \in {"parse", "prog", "expressionStatement", "assignmentStatement"}

\* What is left of parse: the tokens not yet consumed, and within one turn
\* of prog's loop the rules not yet tried.
Remaining ==
  3 * (Len(tokens) - pos)
    + (CASE pc = "prog" -> 2 [] pc = "expressionStatement" -> 1 [] OTHER -> 0)

\* C28: parse comes to an end on every input: a rule that returns a node has
\* moved the cursor forward, so each turn of prog's loop takes at least one
\* token or throws; every step of parse leaves less to do than the one
\* before, until parse returns or throws; when parse returns a tree the
\* cursor is at the end of the tokens.
C28_ParseTerminates ==
  /\ [](child.node # NoNode => (child.err = NoError /\ child.exit > child.entry))
  /\ [](Parsing => (pos <= Len(tokens) /\ Len(node) <= pos /\ Remaining >= 0))
  /\ [][(Parsing /\ pc # "parse") => (~Parsing' \/ Remaining' < Remaining)]_vars
  /\ [](pc = "parsed" => (pos = Len(tokens) /\ tree.type = "Programm"))

\* parse has returned the tree of two statements
C28_Witness ==
  /\ pc = "parsed"
  /\ Len(tree.children) = 2
  /\ pos = Len(tokens)
  /\ child.exit = Len(tokens)
  /\ child.entry > 0

====
